---- MODULE Spec2Model ----
(***************************************************************************)
(* Model of the stale-schedule cleanup pipeline of sampleMaintenance.py    *)
(* (main, the fetch thread, the two pools of delete threads, the thread    *)
(* cleanup in manage_threads) and of the HTTP client it calls,             *)
(* utils/apiConnect.py (APIConnection.httpRequest and tryAPIRequest).      *)
(*                                                                         *)
(* Two state machines share the module:                                    *)
(*   Spec      the pipeline; a DELETE made by a worker is one step whose   *)
(*             result (a response, or an exception) is chosen by the       *)
(*             environment;                                                *)
(*   HttpSpec  one tryAPIRequest call of one APIConnection, attempt by     *)
(*             attempt, against a server that chooses each response.       *)
(***************************************************************************)
EXTENDS Integers, Sequences, FiniteSets, Bags, TLC

(* ------------------------------ bounds --------------------------------- *)

\* worker threads per pool: the value of both num_api_threads literals
\* (4 in the source), scaled down for checking
NumApiThreads == 2
\* largest number of schedule ids the stale-schedule query returns
MaxParents == 2
\* largest number of task ids one /api/schedule/{id}/task query returns
MaxDeps == 1

(* ------------------------- pipeline: constants ------------------------- *)

\* the keys of thread_methods / thread_pool / queue_pool, in insertion order
KindOrder == <<"schedules", "tasks">>
Kinds == {KindOrder[n] : n \in 1..Len(KindOrder)}

\* thread_methods: the thread function started on the queue of each kind
thread_methods == [schedules |-> "delete_schedules", tasks |-> "delete_tasks"]

Endpoint_swapped(method) ==
    IF method = "delete_tasks" THEN "/api/schedule" ELSE "/api/task"
\* the endpoint a thread function puts in connection_instance.uri before the
\* id
Endpoint(method) ==
    IF method = "delete_tasks" THEN "/api/task" ELSE "/api/schedule"

\* num_api_threads of create_delete_threads
create_num_api_threads == NumApiThreads

manage_num_api_threads_more == NumApiThreads + 1
manage_num_api_threads_less == NumApiThreads - 1
\* num_api_threads of manage_threads
manage_num_api_threads == NumApiThreads

\* values the SERVER parameter can have; Absent stands for a missing key
Absent == "<absent>"
ServerValues == {Absent, "", "none", "None", "NONE", "stack1"}

\* str.lower() on the values above
Lower(s) == IF s \in {"NONE", "None"} THEN "none" ELSE s

NoStack_exact(s) == s = Absent \/ s = "" \/ s = "none"
\* the guard of main: 'SERVER' not in parameters or not parameters['SERVER']
\* or parameters['SERVER'].lower() == 'none'
NoStack(s) == s = Absent \/ s = "" \/ Lower(s) = "none"

\* Ids are digit strings in the source (captured by [\d]+); they are modelled
\* as positive numbers.  Done stands for the sentinel id 'done', the only id
\* that is not a digit string, and NoneId for id = None.
Done == 0
NoneId == -1

\* ids the stale-schedule query can return, and the task ids of a schedule
ParentIds == 1..MaxParents
TaskId(p, j) == 10 * p + j
TaskIds == {TaskId(p, j) : p \in ParentIds, j \in 1..MaxDeps}
IdsOf(k) == IF k = "schedules" THEN ParentIds ELSE TaskIds

\* result lists of the stale-schedule query: <<>>, <<1>>, <<1,2>>, ...
ScheduleLists == {[n \in 1..m |-> n] : m \in 0..MaxParents}
\* result_set of the task query for schedule p: <<>>, <<10p+1>>, ...
TaskLists(p) == {[j \in 1..m |-> TaskId(p, j)] : m \in 0..MaxDeps}

\* how a call of the API client ends, as far as its caller can tell:
\* a 2xx response, a response that is not 2xx (httpRequest logs it and
\* returns), or an exception passed along
CallResults == {"2xx", "error", "raise"}

VARIABLES
    server,      \* parameters['SERVER']
    debug,       \* parameters['DEBUG']
    mainPc,      \* position of the main thread (main and manage_threads)
    mi, mj,      \* loop positions of manage_threads (queue/pool index, inner count)
    queue,       \* queue_pool: kind -> sequence of messages [id, sn]
    unfinished,  \* Queue.unfinished_tasks per kind
    thread_pool, \* kind -> bag of the local states of the started threads
    fpc,         \* position of the fetch thread
    schedules,   \* the list passed to delete_task_and_schedules
    fIdx,        \* index of the schedule the fetch thread is at
    fTasks,      \* result_set entries of the current schedule still to put
    \* history
    puts,        \* kind -> sequence of the ids put, in order (sn = index)
    deqCount,    \* kind -> sequence: how often message sn was dequeued
    \* kind -> sequence: 'done' messages each worker dequeued
    deleteCalls, \* kind -> [id -> number of tryAPIRequest calls for it]
    lastCall,    \* result of the latest tryAPIRequest call, "none" before it
    logCalls,    \* whether lastCall is kept (it is not under FairSpec)
    endpoints,   \* kind -> the endpoints the threads of that queue called
    failed,      \* whether a tryAPIRequest call ended other than 2xx
    queryLog,    \* the task queries answered so far: [code, ids]
    logQueries,  \* whether queryLog is kept (it is under FinderSpec)
    exitStep,    \* whether the return of a delete thread is a step of its
                 \* own (it is under JoinSpec)
    test,        \* parameters['TEST'] (set under SignalSpec)
    countTimeouts, \* whether timeoutTick is kept (it is under TimeoutSpec)
    timeoutTick, \* flips with every work_queue.get that times out
    exit_status  \* instance_test_triggered_exit.exit_status

pvars == <<server, debug, mainPc, mi, mj, queue, unfinished, thread_pool, fpc,
           schedules, fIdx, fTasks, puts, deqCount, deleteCalls,
           lastCall, logCalls, endpoints, failed, queryLog,
           logQueries, exitStep, test, countTimeouts, timeoutTick,
           exit_status>>

\* what is fixed for a whole run by the specification checked
switches == <<logCalls, logQueries, exitStep, test, countTimeouts>>

\* the state of one APIConnection during one tryAPIRequest call
VARIABLES
    hRetry500,        \* self.retry500
    hRetryExceptions, \* self.retryExceptions
    hLimit,           \* self.limit
    hLoop,            \* self.loop
    hLogger,          \* whether self.logger is set
    hRequestType,     \* self.requestType
    hpc,              \* position in tryAPIRequest / httpRequest
    retryLimit,       \* local of tryAPIRequest
    attemptLimit,     \* local of httpRequest
    offset,           \* local of httpRequest
    responseCode,     \* self.responseCode
    requestError,     \* whether self.requestError is set
    \* history of the current httpRequest call
    hAttempts,        \* HTTP requests issued
    h5xx,             \* 5xx responses received before any other response
    hOther,           \* whether a response that is not 5xx was received
    hErrors,          \* logger.error calls made by httpRequest
    hStderr,          \* sys.stderr.write calls made by httpRequest
    hPages,           \* passes of the 'while not endLoop' loop
    \* history of the tryAPIRequest call
    hRuns,            \* httpRequest calls made
    hTryErrors,       \* errors reported by tryAPIRequest itself
    hTotal            \* HTTP requests issued by all its httpRequest calls
                      \* (kept for the calls that do not page)

hvars == <<hRetry500, hRetryExceptions, hLimit, hLoop, hLogger, hRequestType,
           hpc, retryLimit, attemptLimit, offset, responseCode, requestError,
           hAttempts, h5xx, hOther, hErrors, hStderr, hPages, hRuns,
           hTryErrors, hTotal>>

hconf == <<hRetry500, hRetryExceptions, hLimit, hLoop, hLogger, hRequestType>>

\* one manifested argument on its way through ArgumentHandler.handleArgs
VARIABLES
    argType,      \* argsManifest[key]['type']: "str", "int" or "bool"
    argDefault,   \* argsManifest[key]['default'], NoArg for None
    argRequired,  \* argsManifest[key]['required']
    argv,         \* the text given for --key on the command line (for a bool
                  \* argument "" when --key is given), NoArg when it is not
    configFile,   \* whether the config file exists
    configText,   \* the text of key in [DEFAULT_SETTINGS], NoArg without it
    argPc,        \* position in handleArgs
    argNameSpace  \* the attribute key of argNameSpace, NoArg for None

avars == <<argType, argDefault, argRequired, argv, configFile, configText,
           argPc, argNameSpace>>

vars == <<pvars, hvars, avars>>

(* --------------------------- Queue.Queue -------------------------------- *)

\* the message that put(k, id) appends: its serial number is its position
\* in the sequence of all puts on that queue
Msg(k, id) == [id |-> id, sn |-> Len(puts[k]) + 1]

\* Queue.put: append, count the message as unfinished
QPut(k, id) ==
    /\ queue' = [queue EXCEPT ![k] = Append(@, Msg(k, id))]
    /\ unfinished' = [unfinished EXCEPT ![k] = @ + 1]
    /\ puts' = [puts EXCEPT ![k] = Append(@, id)]
    /\ deqCount' = [deqCount EXCEPT ![k] = Append(@, 0)]

QGetMsg_last(q) == q[Len(q)]
\* what Queue.get returns: the message put first of those in the queue
QGetMsg(q) == Head(q)

QGetRest_peek(q) == q
\* what Queue.get leaves in the queue: everything but the head
QGetRest(q) == Tail(q)

TaskDone_missing(u) == u
\* Queue.task_done: one unfinished message less
TaskDone(u) == u - 1

(* ----------------------------- thread pools ---------------------------- *)

\* A pool is the bag of the local states of its threads: the threads of a
\* pool run the same function with the same arguments and are told apart by
\* nothing but their position in the loop.  A local state is
\*   pc    "get" (at work_queue.get), "delete" (in the 'if id:' block),
\*         "exiting" (the loop is over, the function has not returned yet),
\*         "exited" (the function returned), "raised" (an exception left it)
\*   id    the local id
\*   done  the number of 'done' messages the thread has taken
NewThread == [pc |-> "get", id |-> NoneId, done |-> 0]

\* the pool with one thread in state w moved to state w2
Moved(pool, w, w2) == (pool (-) SetToBag({w})) (+) SetToBag({w2})

(* ------------------------------- main ----------------------------------- *)

PInit ==
    /\ server \in ServerValues
    /\ debug \in BOOLEAN
    /\ mainPc = "check_server"
    /\ mi = 0 /\ mj = 0
    /\ queue = [k \in Kinds |-> <<>>]
    /\ unfinished = [k \in Kinds |-> 0]
    /\ thread_pool = [k \in Kinds |-> EmptyBag]
    /\ fpc = "idle"
    /\ schedules = <<>>
    /\ fIdx = 0
    /\ fTasks = <<>>
    /\ puts = [k \in Kinds |-> <<>>]
    /\ deqCount = [k \in Kinds |-> <<>>]
    /\ deleteCalls = [k \in Kinds |-> [x \in IdsOf(k) |-> 0]]
    /\ lastCall = "none"
    /\ endpoints = [k \in Kinds |-> {}]
    /\ failed = FALSE
    /\ queryLog = <<>>
    /\ exit_status = FALSE
    /\ timeoutTick = FALSE

\* main, up to sys.exit(0) or the start of the work
CheckServer ==
    /\ mainPc = "check_server"
    /\ mainPc' = IF NoStack(server) THEN "exit" ELSE "create_delete_threads"
    /\ UNCHANGED <<hvars, avars, switches, timeoutTick, exit_status, endpoints, failed, queryLog, server, debug, mi, mj, queue, unfinished, thread_pool, fpc,
                   schedules, fIdx, fTasks, puts, deqCount, deleteCalls, lastCall>>

\* create_delete_threads: two queues, num_api_threads started threads each
CreateDeleteThreads ==
    /\ mainPc = "create_delete_threads"
    /\ thread_pool' = [k \in Kinds |->
                          [w \in {NewThread} |-> create_num_api_threads]]
    /\ mainPc' = "fetch_schedule_ids"
    /\ UNCHANGED <<hvars, avars, switches, timeoutTick, exit_status, endpoints, failed, queryLog, server, debug, mi, mj, queue, unfinished, fpc, schedules,
                   fIdx, fTasks, puts, deqCount, deleteCalls, lastCall>>

\* fetch_schedule_ids, called on the main thread while the arguments of the
\* fetch thread are built: a 2xx answer gives the list, any other answer
\* gives the empty list, an exception of httpRequest ends main
FetchScheduleIds ==
    /\ mainPc = "fetch_schedule_ids"
    /\ \E r \in CallResults :
         \/ /\ r = "2xx"
            /\ \E s \in ScheduleLists : schedules' = s
            /\ mainPc' = "create_fetch_thread"
         \/ /\ r = "error"
            /\ schedules' = <<>>
            /\ mainPc' = "create_fetch_thread"
         \/ /\ r = "raise"
            /\ schedules' = schedules
            /\ mainPc' = "raised"
    /\ UNCHANGED <<hvars, avars, switches, timeoutTick, exit_status, endpoints, failed, queryLog, server, debug, mi, mj, queue, unfinished, thread_pool, fpc,
                   fIdx, fTasks, puts, deqCount, deleteCalls,
                   lastCall>>

\* create_fetch_thread: start the thread; manage_threads then waits in
\* fetch_thread.join()
CreateFetchThread ==
    /\ mainPc = "create_fetch_thread"
    /\ fpc' = IF schedules = <<>> THEN "done" ELSE "query"
    /\ fIdx' = 1
    /\ mainPc' = "fetch_join"
    /\ UNCHANGED <<hvars, avars, switches, timeoutTick, exit_status, endpoints, failed, queryLog, server, debug, mi, mj, queue, unfinished, thread_pool,
                   schedules, fTasks, puts, deqCount, deleteCalls,
                   lastCall>>

(* ---------------- delete_task_and_schedules (fetch thread) -------------- *)

ResultSet_any(r, body) == body
\* the entries the 'for result in ...' loop goes through: those of the
\* result_set when the response code is 2xx, none otherwise
ResultSet(r, body) == IF r = "2xx" THEN body ELSE <<>>

FetchAfterQuery_end(t) == IF t = <<>> THEN "done" ELSE "put_task"
FetchAfterQuery_skip(t) == "put_schedule"
\* 'for result in ...': into the loop when there are entries, else on to the
\* put of the schedule
FetchAfterQuery(t) == IF t = <<>> THEN "put_schedule" ELSE "put_task"

\* the GET of /api/schedule/{id}/task for the schedule at fIdx, answered
\* with a response of code r carrying the ids of body, or ended by an
\* exception
FetchTasks ==
    /\ fpc = "query"
    /\ \E r \in CallResults :
         \/ /\ r # "raise"
            /\ \E body \in TaskLists(schedules[fIdx]) :
                 LET t == ResultSet(r, body) IN
                 /\ fTasks' = t
                 /\ fpc' = FetchAfterQuery(t)
                 /\ queryLog' = IF logQueries
                                THEN Append(queryLog, [code |-> r, ids |-> t])
                                ELSE queryLog
         \/ /\ r = "raise"
            /\ fTasks' = fTasks
            /\ fpc' = "raised"
            /\ queryLog' = queryLog
    /\ UNCHANGED <<hvars, avars, switches, timeoutTick, exit_status, endpoints, failed, server, debug, mainPc, mi, mj, queue, unfinished, thread_pool,
                   schedules, fIdx, puts, deqCount, deleteCalls,
                   lastCall>>

\* delete_queue_pool['tasks'].put({'id': ...}) for the next result
PutTask ==
    /\ fpc = "put_task"
    /\ QPut("tasks", Head(fTasks))
    /\ fTasks' = Tail(fTasks)
    /\ fpc' = FetchAfterQuery(Tail(fTasks))
    /\ UNCHANGED <<hvars, avars, switches, timeoutTick, exit_status, endpoints, failed, queryLog, server, debug, mainPc, mi, mj, thread_pool, schedules, fIdx,
                   deleteCalls, lastCall>>

FetchAfterPut_first(i, n) == "done"
\* 'for schedule_id in schedules': after the schedule at i of n, the next
\* one or the end of the thread function
FetchAfterPut(i, n) == IF i = n THEN "done" ELSE "query"

\* delete_queue_pool['schedules'].put({'id': str(schedule_id)}), next schedule
PutSchedule ==
    /\ fpc = "put_schedule"
    /\ QPut("schedules", schedules[fIdx])
    /\ fIdx' = fIdx + 1
    /\ fpc' = FetchAfterPut(fIdx, Len(schedules))
    /\ UNCHANGED <<hvars, avars, switches, timeoutTick, exit_status, endpoints, failed, queryLog, server, debug, mainPc, mi, mj, thread_pool, schedules, fTasks,
                   deleteCalls, lastCall>>

(* ------------------- delete_tasks / delete_schedules -------------------- *)

\* The two thread functions differ only in the endpoint of the DELETE
\* (/api/task/{id} for the 'tasks' queue, /api/schedule/{id} for the
\* 'schedules' queue); k names the queue the thread was started on.

WorkerAfterGet_delete(id) == "delete"
WorkerAfterGet_nodone(id) == IF id = Done THEN "get" ELSE "delete"
\* where the thread is after a message was taken: 'done' sets done, the
\* 'if id:' block is skipped and the loop ends; any other id is deleted.
\* What follows the loop changes nothing but the thread's being alive: it is
\* a step of its own (WorkerExit) where join() is looked at, and taken
\* together with the last pass of the loop elsewhere.
WorkerAfterGet(id) ==
    IF id = Done THEN (IF exitStep THEN "exiting" ELSE "exited")
    ELSE "delete"

LoopTopId_keep(id) == id
\* 'id = None' at the top of each pass of the loop.  A pass ends where the
\* next one starts, so the id is reset where the pass ends.
LoopTopId(id) == NoneId

WorkerAfterTimeout_exit(id) == "exited"
\* 'if id:' after a get that timed out: the id is the one of the top of the
\* pass
WorkerAfterTimeout(id) == IF id # NoneId THEN "delete" ELSE "get"

\* One pass of the try block: work_queue.get(True, 10), the test for 'done',
\* task_done().  With a message in the queue the head is taken; with the
\* queue empty the get times out (Queue.Empty, ignored), id stays None and
\* the loop starts over.  After 'done' the loop condition fails and the
\* thread goes on to the end of its function.
WorkerGet(k, w) ==
    /\ w.pc = "get"
    /\ IF queue[k] # <<>>
       THEN LET message == QGetMsg(queue[k]) IN
            /\ queue' = [queue EXCEPT ![k] = QGetRest(@)]
            /\ unfinished' = [unfinished EXCEPT ![k] = TaskDone(@)]
            /\ deqCount' = [deqCount EXCEPT ![k][message.sn] = @ + 1]
            /\ thread_pool' = [thread_pool EXCEPT ![k] = Moved(@, w,
                  [pc |-> WorkerAfterGet(message.id),
                   id |-> IF message.id = Done THEN w.id ELSE message.id,
                   done |-> IF message.id = Done THEN w.done + 1 ELSE w.done])]
            /\ timeoutTick' = timeoutTick
       ELSE /\ thread_pool' = [thread_pool EXCEPT ![k] =
                  Moved(@, w, [w EXCEPT !.pc = WorkerAfterTimeout(w.id)])]
            /\ timeoutTick' = IF countTimeouts THEN ~timeoutTick
                               ELSE timeoutTick
            /\ UNCHANGED <<queue, unfinished, deqCount>>
    /\ UNCHANGED <<hvars, avars, switches, exit_status, endpoints, failed, queryLog, server, debug, mainPc, mi, mj, fpc, schedules, fIdx,
                   fTasks, puts, deleteCalls, lastCall>>

\* the end of the thread function after the loop: the 'Exiting ...' message
\* is logged, the function returns and the thread ends
WorkerExit(k, w) ==
    /\ w.pc = "exiting"
    /\ thread_pool' = [thread_pool EXCEPT ![k] =
          Moved(@, w, [w EXCEPT !.pc = "exited"])]
    /\ UNCHANGED <<hvars, avars, switches, timeoutTick, exit_status, endpoints, failed, queryLog,
                   server, debug, mainPc, mi, mj, queue, unfinished, fpc,
                   schedules, fIdx, fTasks, puts, deqCount, deleteCalls,
                   lastCall>>

WorkerAfterCall_stop(r) == IF r = "2xx" THEN "get" ELSE "raised"
\* where the thread is after tryAPIRequest ended with r: an exception leaves
\* the thread function, anything else goes back to the top of the loop
WorkerAfterCall(r) == IF r = "raise" THEN "raised" ELSE "get"

IdSet_afterTasks(id) ==
    /\ id # NoneId
    /\ \A t \in TaskIds : t \div 10 = id => deleteCalls["tasks"][t] = 1
\* 'if id:': an id was taken from the queue in this pass of the loop;
\* nothing else is asked before the DELETE
IdSet(id) == id # NoneId

Suppressed_never(d) == FALSE
\* 'if not debug:': the call is left out when debug is set
Suppressed(d) == d

\* tryAPIRequest was called for the id of w and ended with r
Called(k, w, r) ==
    /\ deleteCalls' = [deleteCalls EXCEPT ![k][w.id] = @ + 1]
    /\ lastCall' = IF logCalls THEN r ELSE lastCall
    /\ failed' = IF logCalls THEN (failed \/ r # "2xx") ELSE failed
    /\ endpoints' = [endpoints EXCEPT
                        ![k] = @ \cup {Endpoint(thread_methods[k])}]
    /\ thread_pool' = [thread_pool EXCEPT ![k] =
          Moved(@, w, [w EXCEPT !.pc = WorkerAfterCall(r),
                                !.id = LoopTopId(w.id)])]

\* The 'if id:' block when nothing is raised in it: the DELETE, made through
\* tryAPIRequest unless debug is set, then the top of the loop.
WorkerDelete(k, w) ==
    /\ w.pc = "delete"
    /\ IdSet(w.id)
    /\ IF Suppressed(debug)
       THEN /\ thread_pool' = [thread_pool EXCEPT ![k] =
                  Moved(@, w, [w EXCEPT !.pc = "get",
                                        !.id = LoopTopId(w.id)])]
            /\ UNCHANGED <<deleteCalls, lastCall, endpoints, failed>>
       ELSE \E r \in CallResults \ {"raise"} : Called(k, w, r)
    /\ UNCHANGED <<hvars, avars, switches, timeoutTick, exit_status, queryLog, server, debug, mainPc, mi, mj, queue, unfinished, fpc,
                   schedules, fIdx, fTasks, puts, deqCount>>

\* The 'if id:' block when tryAPIRequest passes an exception along: nothing
\* in the thread function catches it there, the thread ends.
WorkerDeleteRaises(k, w) ==
    /\ w.pc = "delete"
    /\ IdSet(w.id)
    /\ ~Suppressed(debug)
    /\ Called(k, w, "raise")
    /\ UNCHANGED <<hvars, avars, switches, timeoutTick, exit_status, queryLog, server, debug, mainPc, mi, mj, queue, unfinished, fpc,
                   schedules, fIdx, fTasks, puts, deqCount>>

(* ---------------------------- manage_threads ---------------------------- *)

\* a thread that join() does not wait for
Ended(pc) == pc \in {"exited", "raised"}

FetchEnded_done == fpc = "done"
FetchEnded_always == TRUE
\* fetch_thread.join() returns once the fetch thread has ended
FetchEnded == Ended(IF fpc = "done" THEN "exited" ELSE fpc)

FetchJoin ==
    /\ mainPc = "fetch_join"
    /\ FetchEnded
    /\ mainPc' = "put_done"
    /\ mi' = 1 /\ mj' = 0
    /\ UNCHANGED <<hvars, avars, switches, timeoutTick, exit_status, endpoints, failed, queryLog, server, debug, queue, unfinished, thread_pool, fpc, schedules,
                   fIdx, fTasks, puts, deqCount, deleteCalls,
                   lastCall>>

\* one thread_queue.put({'id': 'done'}) of the first pair of loops; mi is the
\* queue, mj the number of puts already made on it
PutDone ==
    /\ mainPc = "put_done"
    /\ QPut(KindOrder[mi], Done)
    /\ IF mj + 1 < manage_num_api_threads
       THEN /\ mj' = mj + 1
            /\ UNCHANGED <<mi, mainPc>>
       ELSE IF mi < Len(KindOrder)
            THEN /\ mi' = mi + 1 /\ mj' = 0
                 /\ mainPc' = mainPc
            ELSE /\ mi' = 1 /\ mj' = 0
                 /\ mainPc' = "wait_empty"
    /\ UNCHANGED <<hvars, avars, switches, timeoutTick, exit_status, endpoints, failed, queryLog, server, debug, thread_pool, fpc, schedules, fIdx, fTasks,
                   deleteCalls, lastCall>>

\* 'while not thread_queue.empty(): time.sleep(0.2)' for queue mi
WaitEmpty ==
    /\ mainPc = "wait_empty"
    /\ queue[KindOrder[mi]] = <<>>
    /\ IF mi < Len(KindOrder)
       THEN /\ mi' = mi + 1
            /\ UNCHANGED <<mj, mainPc>>
       ELSE /\ mi' = 1 /\ mj' = 0
            /\ mainPc' = "join_threads"
    /\ UNCHANGED <<hvars, avars, switches, timeoutTick, exit_status, endpoints, failed, queryLog, server, debug, queue, unfinished, thread_pool, fpc, schedules,
                   fIdx, fTasks, puts, deqCount, deleteCalls,
                   lastCall>>

Joined_nowait(pool) == TRUE
\* every thread_instance.join() of a pool returns: all its threads ended
Joined(pool) == \A w \in BagToSet(pool) : Ended(w.pc)

\* 'for thread_instance in thread_instances: thread_instance.join()' for
\* pool mi: the loop gets through once every thread of the pool has ended
JoinThread ==
    /\ mainPc = "join_threads"
    /\ Joined(thread_pool[KindOrder[mi]])
    /\ IF mi < Len(KindOrder)
       THEN /\ mi' = mi + 1
            /\ UNCHANGED <<mj, mainPc>>
       ELSE /\ mi' = 1 /\ mj' = 0
            /\ mainPc' = "join_queues"
    /\ UNCHANGED <<hvars, avars, switches, timeoutTick, exit_status, endpoints, failed, queryLog, server, debug, queue, unfinished, thread_pool, fpc,
                   schedules, fIdx, fTasks, puts, deqCount, deleteCalls,
                   lastCall>>

\* thread_queue.join() for queue mi, then the return of manage_threads and
\* of main
JoinQueue ==
    /\ mainPc = "join_queues"
    /\ unfinished[KindOrder[mi]] = 0
    /\ IF mi < Len(KindOrder)
       THEN /\ mi' = mi + 1
            /\ UNCHANGED <<mj, mainPc>>
       ELSE /\ mi' = 0 /\ mj' = 0
            /\ mainPc' = "returned"
    /\ UNCHANGED <<hvars, avars, switches, timeoutTick, exit_status, endpoints, failed, queryLog, server, debug, queue, unfinished, thread_pool, fpc, schedules,
                   fIdx, fTasks, puts, deqCount, deleteCalls,
                   lastCall>>

\* the lifecycle of section 4.3, read off the position of the main thread
Phase ==
    CASE mainPc \in {"check_server", "create_delete_threads",
                     "fetch_schedule_ids", "create_fetch_thread"}
                                                       -> "Initializing"
      [] mainPc = "fetch_join"                         -> "Discovering"
      [] mainPc \in {"put_done", "wait_empty"}         -> "Draining"
      [] mainPc \in {"join_threads", "join_queues"}    -> "Joining"
      [] mainPc = "returned"                           -> "Terminated"
      [] mainPc = "exit"                               -> "Exited"
      [] mainPc = "raised"                             -> "Raised"

\* the steps of a run in which no exception leaves a delete thread
NextNoWorkerRaise ==
    \/ CheckServer
    \/ CreateDeleteThreads
    \/ FetchScheduleIds
    \/ CreateFetchThread
    \/ FetchTasks
    \/ PutTask
    \/ PutSchedule
    \/ \E k \in Kinds : \E w \in BagToSet(thread_pool[k]) : WorkerGet(k, w)
    \/ \E k \in Kinds : \E w \in BagToSet(thread_pool[k]) : WorkerDelete(k, w)
    \/ FetchJoin
    \/ PutDone
    \/ WaitEmpty
    \/ JoinThread
    \/ JoinQueue

Next ==
    \/ NextNoWorkerRaise
    \/ \E k \in Kinds : \E w \in BagToSet(thread_pool[k]) :
          WorkerDeleteRaises(k, w)

(* ------------------------- TestTriggeredExit ---------------------------- *)

\* signal.signal(SIGALRM, signal_catch) was called: TEST is set and main is
\* past the check of SERVER; the handler is run by the main thread, so only
\* while main has not ended
HandlerSet ==
    /\ test
    /\ mainPc \notin {"check_server", "exit", "returned", "raised"}

MainAfterSignal_interrupt(pc) == "raised"
\* where the main thread is after signal_catch has run: where it was, the
\* handler raises nothing
MainAfterSignal(pc) == pc

\* SIGALRM is delivered with the handler set: signal_catch runs
SignalCatch ==
    /\ HandlerSet
    /\ exit_status' = TRUE
    /\ mainPc' = MainAfterSignal(mainPc)
    /\ UNCHANGED <<hvars, avars, switches, timeoutTick, endpoints, failed, queryLog, server,
                   debug, mi, mj, queue, unfinished, thread_pool, fpc,
                   schedules, fIdx, fTasks, puts, deqCount, deleteCalls,
                   lastCall>>

\* the steps of a run in test mode: those of the threads, and the signal
SignalNext ==
    \/ Next
    \/ SignalCatch

\* the steps with the return of a delete thread told apart from its last get
JoinNext ==
    \/ Next
    \/ \E k \in Kinds : \E w \in BagToSet(thread_pool[k]) : WorkerExit(k, w)

(* ===================== utils/apiConnect.py: APIConnection =============== *)

\* most pages one httpRequest call is made to fetch
MaxPages == 2
\* largest total_returned a response body carries
MaxTotal == 2

\* None, for limit and for responseCode
NoneVal == -1

\* values of the constructor arguments; 10 and 5 are what the delete threads
\* pass, 0 is the default of both
Retry500Values == {0, 1, 3, 10}
RetryExceptionsValues == {0, 2, 5}
LimitValues == {NoneVal, 0, 1}
LoopValues == {"None", "False", "True"}
RequestTypes == {"GET", "DELETE", "HEAD"}

\* one status code of each family
StatusCodes == {200, 302, 404, 503}
\* what response.json() gives: NoJSON when it raises, else the value
\* httpRequest derives for totalReturned
NoJSON == -1
Bodies == {NoJSON} \cup (0..MaxTotal)


HStart ==
    /\ hpc = "idle"
    /\ retryLimit = 0 /\ attemptLimit = 0 /\ offset = 0
    /\ responseCode = NoneVal /\ requestError = FALSE
    /\ hAttempts = 0 /\ h5xx = 0 /\ hOther = FALSE
    /\ hErrors = 0 /\ hStderr = 0 /\ hPages = 0
    /\ hRuns = 0 /\ hTryErrors = 0 /\ hTotal = 0

HInit ==
    /\ hRetry500 \in Retry500Values
    /\ hRetryExceptions \in RetryExceptionsValues
    /\ hLimit \in LimitValues
    /\ hLoop \in LoopValues
    /\ hLogger \in BOOLEAN
    /\ hRequestType \in RequestTypes
    /\ HStart

\* the client is not followed while the pipeline is checked
HFrozen ==
    /\ hRetry500 = 0 /\ hRetryExceptions = 0 /\ hLimit = NoneVal
    /\ hLoop = "False" /\ hLogger = FALSE /\ hRequestType = "GET"
    /\ HStart

\* the pipeline is not followed while the client is checked
PFrozen ==
    /\ server = Absent /\ debug = FALSE
    /\ mainPc = "exit"
    /\ mi = 0 /\ mj = 0
    /\ queue = [k \in Kinds |-> <<>>]
    /\ unfinished = [k \in Kinds |-> 0]
    /\ thread_pool = [k \in Kinds |-> EmptyBag]
    /\ fpc = "idle"
    /\ schedules = <<>>
    /\ fIdx = 0
    /\ fTasks = <<>>
    /\ puts = [k \in Kinds |-> <<>>]
    /\ deqCount = [k \in Kinds |-> <<>>]
    /\ deleteCalls = [k \in Kinds |-> [x \in IdsOf(k) |-> 0]]
    /\ lastCall = "none"
    /\ logCalls = FALSE
    /\ exitStep = FALSE
    /\ countTimeouts = FALSE
    /\ timeoutTick = FALSE
    /\ test = FALSE
    /\ exit_status = FALSE
    /\ endpoints = [k \in Kinds |-> {}]
    /\ failed = FALSE
    /\ queryLog = <<>>
    /\ logQueries = FALSE

LogError_quiet(n) == UNCHANGED <<hErrors, hStderr>>
\* n error messages: logger.error when a logger is set, else stderr
LogError(n) ==
    /\ hErrors' = IF hLogger THEN hErrors + n ELSE hErrors
    /\ hStderr' = IF hLogger THEN hStderr ELSE hStderr + n

retryLimitFor_extra(e) == IF e # 0 THEN e + 1 ELSE 1
\* 'retryLimit = 1; if self.retryExceptions and isinstance(...): retryLimit =
\* self.retryExceptions'
retryLimitFor(e) == IF e # 0 THEN e ELSE 1

\* tryAPIRequest, down to its loop
TryAPIRequest ==
    /\ hpc = "idle"
    /\ retryLimit' = retryLimitFor(hRetryExceptions)
    /\ hpc' = "try"
    /\ UNCHANGED <<pvars, avars, hconf, attemptLimit, offset, responseCode,
                   requestError, hAttempts, h5xx, hOther, hErrors, hStderr,
                   hPages, hRuns, hTryErrors, hTotal>>

\* 'while retryLimit: try: self.httpRequest()': httpRequest down to its
\* 'while not endLoop' loop; the response attributes are reset
HttpRequest ==
    /\ hpc = "try"
    /\ retryLimit # 0
    /\ offset' = 0
    /\ responseCode' = NoneVal
    /\ requestError' = FALSE
    /\ hRuns' = hRuns + 1
    /\ hAttempts' = 0 /\ h5xx' = 0 /\ hOther' = FALSE
    /\ hErrors' = 0 /\ hStderr' = 0 /\ hPages' = 0
    /\ hpc' = "page"
    /\ UNCHANGED <<pvars, avars, hconf, retryLimit, attemptLimit, hTryErrors,
                   hTotal>>

attemptLimitFor_extra(r500) == IF r500 # 0 THEN r500 + 1 ELSE 1
\* 'attemptLimit = 1; if self.retry500: attemptLimit = self.retry500'
attemptLimitFor(r500) == IF r500 # 0 THEN r500 ELSE 1

\* the head of one pass of 'while not endLoop', down to 'while attemptLimit'
Page ==
    /\ hpc = "page"
    /\ attemptLimit' = attemptLimitFor(hRetry500)
    /\ hPages' = hPages + 1
    /\ hpc' = "attempt"
    /\ UNCHANGED <<pvars, avars, hconf, retryLimit, offset, responseCode,
                   requestError, hAttempts, h5xx, hOther, hErrors, hStderr,
                   hRuns, hTryErrors, hTotal>>

\* the request types the if/elif chain of the attempt loop sends
Supported(t) == t \in {"PUT", "POST", "PATCH", "DELETE", "GET"}

\* 'Unsupported HTTP request type': reported, httpRequest returns
Unsupported ==
    /\ hpc = "attempt"
    /\ attemptLimit # 0
    /\ ~Supported(hRequestType)
    /\ requestError' = TRUE
    /\ LogError(1)
    /\ hpc' = "returned"
    /\ UNCHANGED <<pvars, avars, hconf, retryLimit, attemptLimit, offset,
                   responseCode, hAttempts, h5xx, hOther, hPages, hRuns,
                   hTryErrors, hTotal>>

\* the test that keeps the 'while not endLoop' loop going after a page
Paging == hLoop # "None" /\ hLimit # NoneVal /\ hLimit > 0

\* the except clause of tryAPIRequest, entered when httpRequest raises
Except ==
    /\ retryLimit' = retryLimit - 1
    /\ hTryErrors' = hTryErrors + 1
    /\ hpc' = IF retryLimit - 1 = 0 THEN "raised" ELSE "try"

\* userAgent.<method>(url) raises (connection error, timeout, ...)
RequestRaises ==
    /\ hpc = "attempt"
    /\ attemptLimit # 0
    /\ Supported(hRequestType)
    /\ hAttempts' = hAttempts + 1
    /\ hTotal' = IF Paging THEN hTotal ELSE hTotal + 1
    /\ Except
    /\ UNCHANGED <<pvars, avars, hconf, attemptLimit, offset, responseCode,
                   requestError, h5xx, hOther, hErrors, hStderr, hPages,
                   hRuns>>

Is5xx(status) == status > 499 /\ status < 600

Retried_any(r500, status) == r500 # 0 /\ status > 399 /\ status < 600
\* 'if self.retry500 and (status_code > 499 and status_code < 600)'
Retried(r500, status) == r500 # 0 /\ Is5xx(status)

Truthy_always(status) == TRUE
\* bool(response) of requests: response.ok, false for 400..599
Truthy(status) == ~(status >= 400 /\ status < 600)

\* userAgent.<method>(url) returns a response with this status and body:
\* the rest of the pass of 'while attemptLimit' and, when the loop ends with
\* it, the end of the pass of 'while not endLoop'
Response(status, body) ==
    /\ hpc = "attempt"
    /\ attemptLimit # 0
    /\ Supported(hRequestType)
    /\ hAttempts' = hAttempts + 1
    /\ hTotal' = IF Paging THEN hTotal ELSE hTotal + 1
    /\ h5xx' = IF Is5xx(status) /\ ~hOther THEN h5xx + 1 ELSE h5xx
    /\ hOther' = (hOther \/ ~Is5xx(status))
    /\ LET retried == Retried(hRetry500, status)
           left == IF retried THEN attemptLimit - 1 ELSE 0
           jsonRaises == body = NoJSON /\ hRequestType # "DELETE"
           totalReturned == IF body = NoJSON THEN 0 ELSE body
           endLoop == IF Paging THEN totalReturned < hLimit ELSE TRUE
       IN
       /\ attemptLimit' = left
       /\ IF left # 0
          THEN \* reported as 'retrying', sleep, next attempt
               /\ LogError(1)
               /\ UNCHANGED <<retryLimit, offset, responseCode, requestError,
                              hTryErrors, hpc>>
          ELSE /\ responseCode' = status
               /\ IF ~Truthy(status)
                  THEN \* 'failed - return code': reported, return
                       /\ requestError' = TRUE
                       /\ LogError(IF retried THEN 2 ELSE 1)
                       /\ hpc' = "returned"
                       /\ UNCHANGED <<retryLimit, offset, hTryErrors>>
                  ELSE /\ LogError(IF retried THEN 1 ELSE 0)
                       /\ requestError' = requestError
                       /\ IF jsonRaises
                          THEN /\ Except
                               /\ offset' = offset
                          ELSE /\ offset' = IF Paging THEN offset + hLimit
                                                     ELSE offset
                               /\ hpc' = IF endLoop THEN "returned" ELSE "page"
                               /\ (~endLoop => hPages < MaxPages)
                               /\ UNCHANGED <<retryLimit, hTryErrors>>
    /\ UNCHANGED <<pvars, avars, hconf, hPages, hRuns>>

HttpNext ==
    \/ TryAPIRequest
    \/ HttpRequest
    \/ Page
    \/ Unsupported
    \/ RequestRaises
    \/ \E status \in StatusCodes : \E body \in Bodies : Response(status, body)

(* =================== utils/argsHandler.py: ArgumentHandler ============== *)

\* None
NoArg == "<none>"

\* values are written as Python prints them
ArgTypes == {"str", "int", "bool"}
\* texts that can stand for an argument of each type on the command line or
\* in the config file
Texts(t) ==
    CASE t = "str"  -> {"a", "b"}
      [] t = "int"  -> {"0", "7", "07"}
      [] t = "bool" -> {"true", "True", "false", "yes"}
\* the defaults a manifest can give an argument of each type
Defaults(t) ==
    CASE t = "str"  -> {NoArg, "a", "c"}
      [] t = "int"  -> {NoArg, "0", "5"}
      [] t = "bool" -> {NoArg, "True", "False"}

\* int(text)
ParseInt(text) == IF text = "07" THEN "7" ELSE text
\* config.get(...).lower() == 'true'
ParseBool(text) == IF text \in {"true", "True"} THEN "True" ELSE "False"

\* what argparse stores for the argument: store_true gives True or False,
\* type=int and type=str give the converted text or None
commandLineArgs(t, text) ==
    CASE t = "bool" -> IF text = NoArg THEN "False" ELSE "True"
      [] t = "int"  -> IF text = NoArg THEN NoArg ELSE ParseInt(text)
      [] t = "str"  -> text

\* what the config loop stores for a key of type t
ConfigValue(t, text) ==
    CASE t = "bool" -> ParseBool(text)
      [] t = "int"  -> ParseInt(text)
      [] t = "str"  -> text

\* 'getattr(argNameSpace, key, None) is None or isinstance(getattr(
\* argNameSpace, key), bool)': an argument of type bool always holds a bool
TakesConfig(t, value) == value = NoArg \/ t = "bool"

AStart == argPc = "start" /\ argNameSpace = NoArg

AInit ==
    /\ argType \in ArgTypes
    /\ argDefault \in Defaults(argType)
    /\ argRequired \in BOOLEAN
    /\ argv \in {NoArg} \cup
                 (IF argType = "bool" THEN {""} ELSE Texts(argType))
    /\ configFile \in BOOLEAN
    /\ configText \in {NoArg} \cup Texts(argType)
    /\ AStart

\* the argument handler is not followed while the others are checked
AFrozen ==
    /\ argType = "str" /\ argDefault = NoArg /\ argRequired = FALSE
    /\ argv = NoArg /\ configFile = FALSE /\ configText = NoArg
    /\ AStart

aconf == <<argType, argDefault, argRequired, argv, configFile, configText>>

\* argNameSpace = self.handleCommandArgs()
HandleCommandArgs ==
    /\ argPc = "start"
    /\ argNameSpace' = commandLineArgs(argType, argv)
    /\ argPc' = "config"
    /\ UNCHANGED <<pvars, hvars, aconf>>

\* 'if os.path.isfile(argNameSpace.configfile): ... for key in
\* config['DEFAULT_SETTINGS']'
ReadConfig ==
    /\ argPc = "config"
    /\ argNameSpace' =
          IF configFile /\ configText # NoArg
             /\ TakesConfig(argType, argNameSpace)
          THEN ConfigValue(argType, configText)
          ELSE argNameSpace
    /\ argPc' = "defaults"
    /\ UNCHANGED <<pvars, hvars, aconf>>

\* 'if there still isn't a value, fall back to the manifested defined default'
ManifestDefaults ==
    /\ argPc = "defaults"
    /\ argNameSpace' =
          IF argNameSpace = NoArg /\ argDefault # NoArg
          THEN argDefault ELSE argNameSpace
    /\ argPc' = "alert"
    /\ UNCHANGED <<pvars, hvars, aconf>>

\* self._missingArgsAlert(argNameSpace), then the return
MissingArgsAlert ==
    /\ argPc = "alert"
    /\ argPc' = IF argNameSpace = NoArg /\ argRequired
                THEN "raised" ELSE "returned"
    /\ UNCHANGED <<pvars, hvars, aconf, argNameSpace>>

ArgsNext ==
    \/ HandleCommandArgs
    \/ ReadConfig
    \/ ManifestDefaults
    \/ MissingArgsAlert

(* ---------------------------- specifications ---------------------------- *)

Init ==
    PInit /\ logCalls = TRUE /\ logQueries = FALSE /\ exitStep = FALSE
          /\ test = FALSE /\ countTimeouts = FALSE /\ HFrozen /\ AFrozen
Spec == Init /\ [][Next]_vars

\* The runs in which no exception leaves a delete thread, under fair
\* scheduling: every thread that can take a step is eventually scheduled.  A
\* step always moves some thread forward, so weak fairness of the next-state
\* relation is enough.  The results of the calls are not recorded: no step
\* depends on them.
FairInit ==
    PInit /\ logCalls = FALSE /\ logQueries = FALSE /\ exitStep = FALSE
          /\ test = FALSE /\ countTimeouts = FALSE /\ HFrozen /\ AFrozen
FairSpec ==
    FairInit /\ [][NextNoWorkerRaise]_vars /\ WF_vars(NextNoWorkerRaise)

\* The pipeline with the answers to the task queries recorded instead of the
\* results of the DELETE calls.
FinderInit ==
    PInit /\ logCalls = FALSE /\ logQueries = TRUE /\ exitStep = FALSE
          /\ test = FALSE /\ countTimeouts = FALSE /\ HFrozen /\ AFrozen
FinderSpec == FinderInit /\ [][Next]_vars

\* The pipeline with the return of each delete thread as a step of its own,
\* nothing recorded of calls and queries.
JoinInit ==
    PInit /\ logCalls = FALSE /\ logQueries = FALSE /\ exitStep = TRUE
          /\ test = FALSE /\ countTimeouts = FALSE /\ HFrozen /\ AFrozen
JoinSpec == JoinInit /\ [][JoinNext]_vars

\* The pipeline in test mode, with SIGALRM delivered at any time after the
\* handler was set.
SignalInit ==
    PInit /\ logCalls = FALSE /\ logQueries = FALSE /\ exitStep = FALSE
          /\ test = TRUE /\ countTimeouts = FALSE /\ HFrozen /\ AFrozen
SignalSpec == SignalInit /\ [][SignalNext]_vars

\* The runs in which every DELETE call returns, with the results of the calls
\* recorded.
ReturnSpec == Init /\ [][NextNoWorkerRaise]_vars

\* The runs in which no exception leaves a delete thread, with the timeouts
\* of the threads' gets made visible and the results of the calls recorded.
TimeoutInit ==
    PInit /\ logCalls = TRUE /\ logQueries = FALSE /\ exitStep = FALSE
          /\ test = FALSE /\ countTimeouts = TRUE /\ HFrozen /\ AFrozen
TimeoutSpec == TimeoutInit /\ [][NextNoWorkerRaise]_vars

HttpInit == HInit /\ PFrozen /\ AFrozen
HttpSpec == HttpInit /\ [][HttpNext]_vars

\* handleArgs for one manifested argument
ArgsInit == AInit /\ PFrozen /\ HFrozen
ArgsSpec == ArgsInit /\ [][ArgsNext]_vars

(* ================================ claims ================================ *)

Min(a, b) == IF a < b THEN a ELSE b

\* number of 'done' messages put on queue k so far
DoneCount(k) == Cardinality({sn \in 1..Len(puts[k]) : puts[k][sn] = Done})
\* number of messages put on queue k that ask for a DELETE
DeleteCount(k) == Len(puts[k]) - DoneCount(k)
\* number of threads started on queue k
Started(k) == BagCardinality(thread_pool[k])
\* the local states the threads of queue k are in
Workers(k) == BagToSet(thread_pool[k])
\* the two loops of puts in manage_threads are over
Injected == mainPc \in {"wait_empty", "join_threads", "join_queues", "returned"}
WorkerRaised == \E k \in Kinds : \E w \in Workers(k) : w.pc = "raised"
DoneLeft(k) == \E x \in 1..Len(queue[k]) : queue[k][x].id = Done

\* C1: on each queue the 'done' messages put by manage_threads never exceed
\* the threads started on that queue, and once manage_threads has made its
\* puts their number equals the number of threads started on it.
C1_DoneCountIsThreadCount ==
    \A k \in Kinds :
        /\ DoneCount(k) <= Started(k)
        /\ (Started(k) = 0 => DoneCount(k) = 0)
        /\ (Injected => DoneCount(k) = Started(k))

C1_Witness ==
    /\ mainPc = "returned"
    /\ \A k \in Kinds : DoneCount(k) = NumApiThreads /\ Started(k) = NumApiThreads

\* queue k is drained: every thread of the pool took one 'done' and ended,
\* and nothing is left in the queue
Drained(k) ==
    /\ queue[k] = <<>>
    /\ \A w \in Workers(k) : w.pc = "exited" /\ w.done = 1

\* C2: in the runs where no exception leaves a worker, no worker ever takes
\* more than one 'done'; and under fair scheduling, once N 'done' messages
\* were put on a queue with N threads, the queue gets drained: every thread
\* of the pool has taken exactly one 'done' and ended, none is left in the
\* queue.
C2_DrainCompleteness ==
    /\ [](\A k \in Kinds : \A w \in Workers(k) : w.done <= 1)
    /\ \A k \in Kinds :
          (Started(k) > 0 /\ DoneCount(k) = Started(k)) ~> []Drained(k)

C2_Witness ==
    /\ ~WorkerRaised
    /\ \A k \in Kinds : Started(k) = NumApiThreads /\ Drained(k)
    /\ DeleteCount("schedules") = MaxParents
    /\ DeleteCount("tasks") > 0

\* C3: every message put on a queue is taken at most once, a message still
\* in the queue was never taken, and when manage_threads has returned every
\* message put was taken exactly once.
C3_DequeuedOnce ==
    \A k \in Kinds :
        /\ \A sn \in 1..Len(puts[k]) :
              /\ deqCount[k][sn] <= 1
              /\ (mainPc = "returned" => deqCount[k][sn] = 1)
        /\ \A x \in 1..Len(queue[k]) : deqCount[k][queue[k][x].sn] = 0

C3_Witness ==
    /\ mainPc = "returned"
    /\ Len(puts["schedules"]) = MaxParents + NumApiThreads
    /\ Len(puts["tasks"]) > NumApiThreads
    /\ \A k \in Kinds : \A sn \in 1..Len(puts[k]) : deqCount[k][sn] = 1

\* an exception left fetch_schedule_ids, the fetch thread or a worker
AnyRaised == mainPc = "raised" \/ fpc = "raised" \/ WorkerRaised

AllEnded ==
    /\ fpc = "done"
    /\ \A k \in Kinds :
          /\ queue[k] = <<>>
          /\ unfinished[k] = 0
          /\ \A w \in Workers(k) : w.pc = "exited"

\* C4: under fair scheduling a run that starts its threads either has an
\* exception leave the discovery or a worker, or reaches the return of
\* manage_threads; and when it returns without such an exception the fetch
\* thread is done, both queues are empty and all 2N workers have ended.
C4_Terminates ==
    /\ (mainPc = "create_delete_threads") ~> (mainPc = "returned" \/ AnyRaised)
    /\ [](mainPc = "returned" /\ ~AnyRaised => AllEnded)

C4_Witness ==
    /\ mainPc = "returned"
    /\ ~AnyRaised
    /\ AllEnded
    /\ Len(schedules) = MaxParents
    /\ \A k \in Kinds : Started(k) = NumApiThreads

PhaseOrder ==
    {<<"Initializing", "Discovering">>, <<"Discovering", "Draining">>,
     <<"Draining", "Joining">>, <<"Joining", "Terminated">>,
     <<"Initializing", "Exited">>, <<"Initializing", "Raised">>}

\* C5: while the fetch thread runs no 'done' is in any queue and the main
\* thread is not past Discovering; and the phase only ever changes along
\* Initializing, Discovering, Draining, Joining, Terminated (or from
\* Initializing to the early exit).
C5_PhaseOrder ==
    /\ [](fpc \notin {"done", "raised"} =>
            /\ \A k \in Kinds : DoneCount(k) = 0
            /\ Phase \notin {"Draining", "Joining", "Terminated"})
    /\ [][Phase' # Phase => <<Phase, Phase'>> \in PhaseOrder]_vars

C5_Witness ==
    /\ Phase = "Draining"
    /\ mainPc = "put_done"
    /\ fpc = "done"
    /\ Len(schedules) = MaxParents
    /\ DoneCount("schedules") = 1

\* C6: when a worker of a queue was ended by an exception, the main thread
\* never gets to Joining or Terminated, and once N 'done' messages were put
\* on that queue one of them stays in it.
C6_DeadWorkerHangs ==
    \A k \in Kinds :
        (\E w \in Workers(k) : w.pc = "raised") =>
            /\ Phase \notin {"Joining", "Terminated"}
            /\ (DoneCount(k) = Started(k) => DoneLeft(k))

C6_Witness ==
    /\ mainPc = "wait_empty"
    /\ \E k \in Kinds :
          /\ \E w \in Workers(k) : w.pc = "raised"
          /\ \A w \in Workers(k) : w.pc \in {"raised", "exited"}
          /\ Len(queue[k]) = 1
          /\ DoneLeft(k)

\* C7: a step in which a worker's DELETE ends with a response that is not
\* 2xx moves that worker to the top of its loop and changes no other thread,
\* puts nothing on a queue and takes nothing from one, and the id was asked
\* to be deleted just once; no id is ever asked to be deleted twice.
C7_ErrorDropsItem ==
    /\ [](\A k \in Kinds : \A x \in IdsOf(k) : deleteCalls[k][x] <= 1)
    /\ [][(deleteCalls' # deleteCalls /\ lastCall' = "error") =>
            \E k \in Kinds : \E w \in Workers(k) :
               /\ w.pc = "delete"
               /\ thread_pool' = [thread_pool EXCEPT ![k] =
                     Moved(@, w, [pc |-> "get", id |-> NoneId, done |-> w.done])]
               /\ deleteCalls' = [deleteCalls EXCEPT ![k][w.id] = 1]
               /\ queue' = queue /\ puts' = puts /\ unfinished' = unfinished
               /\ mainPc' = mainPc /\ fpc' = fpc]_vars

C7_Witness ==
    /\ lastCall = "error"
    /\ mainPc = "returned"
    /\ ~WorkerRaised
    /\ DeleteCount("tasks") > 0

(* claims about the fetch thread, checked under FinderSpec *)

\* the ids of a sequence of puts that ask for a DELETE
NonDone(seq) == SelectSeq(seq, LAMBDA x : x # Done)
\* the set of the elements of a sequence
Range(seq) == {seq[n] : n \in 1..Len(seq)}
\* the ids the task queries answered so far have returned, in order
RECURSIVE Flat(_)
Flat(log) == IF log = <<>> THEN <<>> ELSE log[1].ids \o Flat(Tail(log))
\* the schedule a task id was returned for
ParentOf(t) == t \div 10
\* the ids put on queue k that ask for a DELETE, in the order of the puts
DeletePuts(k) == NonDone(puts[k])

\* C11: the ids put on the 'schedules' queue for deletion are the ids of the
\* list the stale-schedule query gave, in order and once each, as far as the
\* fetch thread has got; the ids put on the 'tasks' queue are, together with
\* those the thread still holds, exactly the ids the task queries returned,
\* each query being that of its schedule; and when the thread is done every
\* schedule of the list and every task returned was put exactly once.
C11_OneItemPerId ==
    /\ Len(DeletePuts("schedules")) <= Len(schedules)
    /\ DeletePuts("schedules")
          = SubSeq(schedules, 1, Len(DeletePuts("schedules")))
    /\ DeletePuts("tasks") \o fTasks = Flat(queryLog)
    /\ \A n \in 1..Len(queryLog) :
          \A t \in Range(queryLog[n].ids) : ParentOf(t) = schedules[n]
    /\ fpc = "done" =>
          /\ DeletePuts("schedules") = schedules
          /\ Len(queryLog) = Len(schedules)
          /\ DeletePuts("tasks") = Flat(queryLog)

C11_Witness ==
    /\ fpc = "done"
    /\ Len(schedules) = MaxParents
    /\ DeletePuts("schedules") = schedules
    /\ \E n \in 1..Len(queryLog) : queryLog[n].ids = <<>>
    /\ \E n \in 1..Len(queryLog) : queryLog[n].ids # <<>>
    /\ DeletePuts("tasks") = Flat(queryLog)

\* C12: in every state in which the id of a schedule has been put on the
\* 'schedules' queue, every task id its query returned has been put on the
\* 'tasks' queue and none is still held by the fetch thread; and every task
\* id put belongs to a schedule the thread has queried.
C12_DependentsFirst ==
    /\ \A n \in 1..Len(queryLog) :
          schedules[n] \in Range(puts["schedules"]) =>
             /\ Range(queryLog[n].ids) \subseteq Range(puts["tasks"])
             /\ \A t \in Range(fTasks) : ParentOf(t) # schedules[n]
    /\ \A p \in Range(DeletePuts("schedules")) :
          \E n \in 1..Len(queryLog) : schedules[n] = p
    /\ \A t \in Range(DeletePuts("tasks")) :
          \E n \in 1..Len(queryLog) : t \in Range(queryLog[n].ids)

C12_Witness ==
    /\ fpc = "put_schedule"
    /\ fIdx = 1
    /\ queryLog[1].ids # <<>>
    /\ Range(queryLog[1].ids) \subseteq Range(puts["tasks"])
    /\ puts["schedules"] = <<>>

(* claims about the order of the DELETE calls, checked under Spec *)

\* C13: nothing orders the DELETE of a schedule after those of its tasks: a
\* worker of the 'schedules' pool that holds an id can always make its DELETE
\* as the next step, whatever has become of the tasks of that schedule, and
\* an id whose DELETE was made is held by no worker any more.
C13_NoCrossPoolOrder ==
    \A w \in Workers("schedules") :
        /\ w.pc = "delete" =>
              /\ w.id \in ParentIds
              /\ deleteCalls["schedules"][w.id] = 0
              /\ ENABLED WorkerDelete("schedules", w)
        /\ w.pc # "delete" => w.id = NoneId

\* the DELETE of schedule 1 was made and has returned 2xx while the DELETE of
\* its task, put on the queue before, has not been made
C13_Witness ==
    /\ ~debug
    /\ lastCall = "2xx"
    /\ deleteCalls["schedules"][1] = 1
    /\ \A w \in Workers("schedules") : w.pc = "get"
    /\ TaskId(1, 1) \in Range(puts["tasks"])
    /\ deleteCalls["tasks"][TaskId(1, 1)] = 0
    /\ \A x \in IdsOf("tasks") : deleteCalls["tasks"][x] = 0

\* how often id x was put on queue k
PutCount(k, x) == Cardinality({n \in 1..Len(puts[k]) : puts[k][n] = x})
\* the number of DELETE calls made for ids of queue k
RECURSIVE SumCalls(_, _)
SumCalls(k, ids) ==
    IF ids = {} THEN 0
    ELSE LET x == CHOOSE y \in ids : TRUE
         IN deleteCalls[k][x] + SumCalls(k, ids \ {x})
CallsMade(k) == SumCalls(k, IdsOf(k))

\* C14: ids taken from the 'tasks' queue are only ever deleted at /api/task
\* and ids taken from the 'schedules' queue at /api/schedule; and when
\* manage_threads has returned from a run without debug in which every
\* tryAPIRequest call ended 2xx, each id was asked to be deleted as often as
\* it was put, so that the calls made are as many as the tasks and the
\* schedules the fetch thread put.
C14_OneCallPerItem ==
    /\ endpoints["tasks"] \subseteq {"/api/task"}
    /\ endpoints["schedules"] \subseteq {"/api/schedule"}
    /\ (mainPc = "returned" /\ ~debug /\ ~failed) =>
          /\ \A k \in Kinds :
                /\ \A x \in IdsOf(k) : deleteCalls[k][x] = PutCount(k, x)
                /\ CallsMade(k) = DeleteCount(k)
                /\ DeleteCount(k) > 0 => endpoints[k] # {}
          /\ CallsMade("tasks") + CallsMade("schedules")
                = DeleteCount("tasks") + DeleteCount("schedules")

C14_Witness ==
    /\ mainPc = "returned" /\ ~debug /\ ~failed
    /\ DeleteCount("schedules") = MaxParents
    /\ DeleteCount("tasks") = 1
    /\ CallsMade("tasks") + CallsMade("schedules") = MaxParents + 1
    /\ endpoints = [schedules |-> {"/api/schedule"}, tasks |-> {"/api/task"}]

\* C15: with debug set no DELETE call is made in any state of the run; and
\* under fair scheduling such a run, once it starts its threads, gets to the
\* return of manage_threads unless an exception ends main in the
\* stale-schedule query, and when it has returned the fetch thread has ended,
\* every message put was taken and every worker has ended.
C15_DryRun ==
    /\ [](debug => \A k \in Kinds :
                      /\ CallsMade(k) = 0
                      /\ endpoints[k] = {}
                      /\ \A w \in Workers(k) : w.pc # "raised")
    /\ (debug /\ mainPc = "create_delete_threads")
          ~> (mainPc = "returned" \/ mainPc = "raised")
    /\ [](debug /\ mainPc = "returned" =>
            /\ fpc \in {"done", "raised"}
            /\ \A k \in Kinds :
                  /\ queue[k] = <<>>
                  /\ \A sn \in 1..Len(puts[k]) : deqCount[k][sn] = 1
                  /\ \A w \in Workers(k) : w.pc = "exited")

C15_Witness ==
    /\ debug
    /\ mainPc = "returned"
    /\ fpc = "done"
    /\ DeleteCount("schedules") = MaxParents
    /\ DeleteCount("tasks") > 0
    /\ \A k \in Kinds : CallsMade(k) = 0 /\ queue[k] = <<>>

(* claims about the joins, checked under JoinSpec *)

\* C16: whenever the main thread is past the joins of the threads (at the
\* joins of the queues, or returned from manage_threads) every thread of
\* both pools has returned from its function, so none is in a DELETE; and
\* while it joins the second pool the first has ended.
C16_TerminatedAfterJoin ==
    /\ (mainPc \in {"join_queues", "returned"}) =>
          \A k \in Kinds : \A w \in Workers(k) : w.pc = "exited"
    /\ (mainPc = "join_threads") =>
          \A n \in 1..(mi - 1) :
             \A w \in Workers(KindOrder[n]) : w.pc = "exited"

\* both queues were seen empty and a thread has not returned yet: the main
\* thread is held in join()
C16_Witness ==
    /\ mainPc = "join_threads"
    /\ \A k \in Kinds : queue[k] = <<>>
    /\ \E k \in Kinds : \E w \in Workers(k) : w.pc = "exiting"

(* claims about where the queries are made, checked under FinderSpec *)

\* a step in which the stale-schedule query is made and answered
StaleQueryStep == mainPc = "fetch_schedule_ids" /\ mainPc' # mainPc
\* a step in which a task query is made and answered
TaskQueryStep == fpc = "query" /\ fpc' # fpc

C18_ErrorSkipsDependents ==
    /\ \A n \in 1..Len(queryLog) :
          queryLog[n].code = "error" =>
             /\ queryLog[n].ids = <<>>
             /\ \A t \in Range(puts["tasks"]) \cup Range(fTasks) :
                   t # Done => ParentOf(t) # schedules[n]
             /\ fpc = "raised" => fIdx > n
             /\ fIdx > n => schedules[n] \in Range(puts["schedules"])
    /\ fpc \in {"put_task", "put_schedule"} => Len(queryLog) = fIdx
    /\ fpc \in {"query", "raised"} => Len(queryLog) = fIdx - 1
    /\ fpc = "done" =>
          /\ Len(queryLog) = Len(schedules)
          /\ \A n \in 1..Len(schedules) :
                /\ schedules[n] \in Range(puts["schedules"])
                /\ Range(queryLog[n].ids) \subseteq Range(puts["tasks"])

\* the query of the first schedule was answered with an error, the next one
\* with a task, and the thread is done
C18_Witness ==
    /\ fpc = "done"
    /\ Len(queryLog) = 2
    /\ queryLog[1].code = "error"
    /\ queryLog[2].code = "2xx"
    /\ queryLog[2].ids # <<>>
    /\ DeletePuts("tasks") = queryLog[2].ids
    /\ puts["schedules"] = schedules

(* claims about main, checked under Spec *)

\* SERVER is missing, empty, or 'none' in some letter case
ServerUnset == server \in {Absent, "", "none", "None", "NONE"}

\* C19: when SERVER is missing, empty or 'none' in any letter case, the main
\* thread is only ever at the check or at its exit: no delete thread and no
\* fetch thread is started, nothing is put on a queue, the stale-schedule
\* query is not made and no DELETE is called.
C19_NoServerNoWork ==
    ServerUnset =>
        /\ mainPc \in {"check_server", "exit"}
        /\ fpc = "idle"
        /\ schedules = <<>>
        /\ \A k \in Kinds :
              /\ Started(k) = 0
              /\ puts[k] = <<>> /\ queue[k] = <<>> /\ unfinished[k] = 0
              /\ CallsMade(k) = 0 /\ endpoints[k] = {}

C19_Witness ==
    /\ server = "None"
    /\ mainPc = "exit"
    /\ \A k \in Kinds : Started(k) = 0 /\ puts[k] = <<>>

(* claims about the test signal, checked under SignalSpec *)

\* everything of the pipeline but the flag
NoFlag == <<server, debug, mainPc, mi, mj, queue, unfinished, thread_pool,
            fpc, schedules, fIdx, fTasks, puts, deqCount, deleteCalls,
            endpoints>>

\* C20: a step that changes exit_status sets it and changes nothing else: the
\* queues, the local state of every delete thread, the fetch thread and
\* the position of the main thread stay as they are, no thread is ended and
\* no DELETE is made or dropped; no other step changes the flag, and the
\* flag is only ever set in test mode.
C20_SignalSetsFlagOnly ==
    /\ [][exit_status' # exit_status =>
            /\ exit_status' = TRUE
            /\ NoFlag' = NoFlag]_vars
    /\ [][NoFlag' # NoFlag => exit_status' = exit_status]_vars
    /\ [](exit_status => test)

\* the signal came while a delete thread was in its 'if id:' block and the
\* fetch thread was running
C20_Witness ==
    /\ exit_status
    /\ mainPc = "fetch_join"
    /\ fpc = "query"
    /\ \E k \in Kinds : \E w \in Workers(k) : w.pc = "delete"

\* C24: a get that times out changes nothing but the tick: no DELETE is
\* issued (the one of the id taken before is not issued again), the queues
\* and their counts stay, nothing is logged, the thread stays where it was,
\* at the top of its loop; and a delete thread that reached the end of its
\* function took a 'done' message, however many gets timed out before.
C24_TimeoutNoOp ==
    /\ [][timeoutTick' # timeoutTick =>
             UNCHANGED <<queue, unfinished, puts, deqCount, deleteCalls,
                         lastCall, failed, endpoints, thread_pool, mainPc,
                         fpc, exit_status>>]_vars
    /\ [](\A k \in Kinds : \A w \in BagToSet(thread_pool[k]) :
             /\ w.pc = "exited" => w.done >= 1
             /\ w.pc = "get" => w.id = NoneId)
\* a get timed out on an empty queue after a DELETE was made on that queue,
\* and a thread of the queue that took no 'done' is still at its get
C24_Witness ==
    /\ timeoutTick
    /\ \E k \in Kinds :
          /\ queue[k] = <<>>
          /\ \E id \in IdsOf(k) : deleteCalls[k][id] >= 1
          /\ \E w \in BagToSet(thread_pool[k]) : w.pc = "get" /\ w.done = 0

\* a 'done' message is at the head of queue k and this step takes it
TakesDone(k) ==
    /\ queue[k] # <<>>
    /\ Head(queue[k]).id = Done
    /\ queue'[k] = Tail(queue[k])

\* C25: the step in which a delete thread takes a 'done' message makes no
\* DELETE call and puts nothing on a queue (the queue it took from loses
\* that one message, the other queue stays); a thread that took a 'done' is
\* at the end of its function, holding no id, and never back at its get;
\* and the threads at the end of their function without an exception are
\* those that took exactly one 'done'.
C25_DoneEndsWorker ==
    /\ [][\A k \in Kinds : TakesDone(k) =>
             /\ deleteCalls' = deleteCalls
             /\ puts' = puts
             /\ \A o \in Kinds \ {k} : queue'[o] = queue[o]]_vars
    /\ [](\A k \in Kinds : \A w \in Workers(k) :
             /\ w.done <= 1
             /\ w.pc \in {"exiting", "exited"} <=> w.done = 1
             /\ w.done = 1 => w.id = NoneId)
\* a delete thread made a DELETE call, then took a 'done' and is about to
\* return, while another 'done' is still waiting on its queue
C25_Witness ==
    \E k \in Kinds :
       /\ \E id \in IdsOf(k) : deleteCalls[k][id] = 1
       /\ \E w \in Workers(k) : w.pc = "exiting" /\ w.done = 1
       /\ DoneLeft(k)

\* the main thread has found queue k empty in its polls of manage_threads
SeenEmpty(k) ==
    \/ mainPc \in {"join_threads", "join_queues", "returned"}
    \/ mainPc = "wait_empty" /\ \E n \in 1..(mi - 1) : KindOrder[n] = k
\* a delete thread holds an id it took and has not finished its DELETE
Deleting(k) == \E w \in Workers(k) : w.pc = "delete"

\* the main thread has just found the last queue empty, in a run in which
\* DELETE calls were made on both queues
BothSeenEmpty ==
    /\ mainPc = "join_threads" /\ mi = 1
    /\ \A k \in Kinds : \E id \in IdsOf(k) : deleteCalls[k][id] = 1

\* C27 as stated, at the states it is about: where the main thread has found
\* both queues empty, a DELETE is still under way.  The claim asks for one
\* such state; none is reached (C27_EmptyMeansFinished), so this fails at
\* the first state with both queues found empty.
C27_AsStated == BothSeenEmpty => \E k \in Kinds : Deleting(k)

\* C27: once the main thread has found a queue empty, every delete thread of
\* that queue has taken a 'done' and is at the end of its function: no
\* DELETE of that queue is under way, and with both queues found empty no
\* DELETE at all.  The polls come after as many 'done' puts as the queue has
\* threads, and a thread takes at most one of them.
C27_EmptyMeansFinished ==
    \A k \in Kinds :
        SeenEmpty(k) =>
            /\ ~Deleting(k)
            /\ \A w \in Workers(k) : w.pc = "exited" /\ w.done = 1
            /\ queue[k] = <<>>
\* both queues were found empty after DELETE calls were made on both, the
\* threads are still to be joined
C27_Witness ==
    /\ BothSeenEmpty
    /\ \A k \in Kinds : SeenEmpty(k) /\ Started(k) = create_num_api_threads
    /\ failed

\* this step is the tryAPIRequest call for id of queue k
CallStep(k, id) == deleteCalls'[k][id] = deleteCalls[k][id] + 1
\* the pool of queue k after the thread w has got r from its call
PoolAfterCall(k, w, r) ==
    [thread_pool EXCEPT ![k] =
        Moved(@, w, [pc |-> WorkerAfterCall(r), id |-> NoneId,
                     done |-> w.done])]

\* C28: nothing of the response to a DELETE reaches the main thread.  Take
\* any step that is a DELETE call ended without an exception: whichever of
\* the response codes the call had got, the threads, the queues, what was
\* taken from them and the main thread would be the same after it (two runs
\* that differ in the codes alone therefore go through the same states but
\* for what is logged); and main returns the same value, the exit status no
\* thread sets, whether or not a call has failed.
C28_NoFlowBack ==
    /\ [][\A k \in Kinds : \A id \in IdsOf(k) :
             (CallStep(k, id) /\ lastCall' # "raise") =>
                /\ \A r \in CallResults \ {"raise"} :
                   \A w \in Workers(k) :
                      (w.pc = "delete" /\ w.id = id)
                         => thread_pool' = PoolAfterCall(k, w, r)
                /\ UNCHANGED <<mainPc, mi, mj, queue, unfinished, puts,
                               deqCount, fpc, schedules, fIdx, fTasks,
                               exit_status, server, debug>>]_vars
    /\ [](mainPc = "returned" => exit_status = FALSE)
    /\ [][(mainPc' # mainPc \/ exit_status' # exit_status)
             => (failed' = failed /\ lastCall' = lastCall)]_vars
\* main has returned from a run in which one DELETE call got an error
\* response and a later one a 2xx response
C28_Witness ==
    /\ mainPc = "returned" /\ exit_status = FALSE
    /\ failed /\ lastCall = "2xx"
    /\ \A k \in Kinds : \E id \in IdsOf(k) : deleteCalls[k][id] = 1

\* this step takes the thread w of queue k through its 'if id:' block
\* without an exception
BlockStep(k, w) ==
    /\ w.pc = "delete"
    /\ CopiesIn(w, thread_pool'[k]) < CopiesIn(w, thread_pool[k])
    /\ lastCall' # "raise"

\* C29: with and without debug a pass through the 'if id:' block that
\* raises nothing is the same step but for the call: the thread is back at
\* the top of its loop with no id, every other thread, both queues, what
\* was taken from them, the fetch thread and the main thread are as before;
\* the one difference is that the call is counted without debug and not
\* with it.  No other step looks at debug, so a dry run and a run whose
\* calls all return go through the same states but for the calls made.
C29_DryRunInStep ==
    /\ [][\A k \in Kinds : \A w \in Workers(k) :
             BlockStep(k, w) =>
                /\ thread_pool' = [thread_pool EXCEPT ![k] =
                      Moved(@, w, [pc |-> "get", id |-> NoneId,
                                   done |-> w.done])]
                /\ UNCHANGED <<mainPc, mi, mj, queue, unfinished, puts,
                               deqCount, fpc, schedules, fIdx, fTasks,
                               exit_status, server, debug>>
                /\ deleteCalls' = [deleteCalls EXCEPT ![k][w.id] =
                                     IF debug THEN @ ELSE @ + 1]]_vars
    /\ [](debug => /\ lastCall = "none" /\ ~failed
                    /\ \A k \in Kinds : CallsMade(k) = 0)
\* a dry run in which both queues were found empty after ids of both were
\* taken, with no call made
C29_Witness ==
    /\ debug
    /\ mainPc = "join_threads"
    /\ \A k \in Kinds :
          /\ DeleteCount(k) > 0
          /\ \A sn \in 1..Len(puts[k]) : deqCount[k][sn] = 1
          /\ CallsMade(k) = 0

\* the message with serial number sn of queue k was taken
Taken(k, sn) == deqCount[k][sn] >= 1
\* the threads of queue k that hold the id put as message sn
Holders(k, sn) ==
    {w \in Workers(k) : w.pc = "delete" /\ w.id = puts[k][sn]}

\* C30: each queue is taken from in the order of the puts: the step that
\* takes a message takes the one put first of those not taken yet, so the
\* messages taken are always the first ones put.  The DELETE calls are not
\* held to that order: a thread that holds an id can make its call as the
\* next step, whichever ids put before it are still held by other threads.
C30_FifoButNoCallOrder ==
    /\ [](\A k \in Kinds : \A sn \in 1..Len(puts[k]) :
             /\ Taken(k, sn) => \A m \in 1..sn : deqCount[k][m] = 1
             /\ ~Taken(k, sn) =>
                   \E x \in 1..Len(queue[k]) :
                      queue[k][x] = [id |-> puts[k][sn], sn |-> sn]
             /\ \A w \in Holders(k, sn) :
                   /\ Taken(k, sn)
                   /\ ENABLED WorkerDelete(k, w))
    /\ [][\A k \in Kinds : \A sn \in 1..Len(puts[k]) :
             (~Taken(k, sn) /\ deqCount'[k][sn] = 1) =>
                /\ queue[k] # <<>> /\ Head(queue[k]).sn = sn
                /\ queue'[k] = Tail(queue[k])
                /\ puts[k][sn] # Done =>
                      \E w \in BagToSet(thread_pool'[k]) :
                         w.pc = "delete" /\ w.id = puts[k][sn]]_vars
\* of two ids put on the same queue, the DELETE of the one put later was
\* made and has returned while the DELETE of the one put first, taken from
\* the queue before it, is still to be made by the thread that holds it
C30_Witness ==
    \E k \in Kinds : \E a, b \in 1..Len(puts[k]) :
       /\ a < b
       /\ puts[k][a] # Done /\ puts[k][b] # Done
       /\ Holders(k, a) # {}
       /\ deleteCalls[k][puts[k][a]] = 0
       /\ deleteCalls[k][puts[k][b]] = 1
       /\ Holders(k, b) = {}

(* the put of a schedule whose task query gave nothing, under FinderSpec *)

\* the task query of the n-th schedule was answered and gave no id to put:
\* a response that is not 2xx, or an empty result_set
NoDependents(n) == n <= Len(queryLog) /\ queryLog[n].ids = <<>>

\* C31: the id of a schedule is put on the 'schedules' queue whatever its
\* task query was answered: after an answer that gave no task id (a response
\* that is not 2xx, or an empty result) the thread is at the put of that
\* schedule, which nothing holds up, or has made it; no task id of that
\* schedule is ever put; and a delete thread that took the id can make its
\* DELETE as the next step.
C31_ParentPutWithoutDependents ==
    \A n \in 1..Len(schedules) :
        NoDependents(n) =>
            /\ \/ /\ fpc = "put_schedule" /\ fIdx = n
                  /\ ENABLED PutSchedule
                  /\ schedules[n] \notin Range(puts["schedules"])
               \/ /\ schedules[n] \in Range(puts["schedules"])
                  /\ fIdx > n
            /\ \A t \in Range(puts["tasks"]) \cup Range(fTasks) :
                  t # Done => ParentOf(t) # schedules[n]
            /\ \A w \in Workers("schedules") :
                  (w.pc = "delete" /\ w.id = schedules[n])
                      => ENABLED WorkerDelete("schedules", w)
\* the task query of schedule 1 got a response that is not 2xx, no task id
\* was ever put, and the DELETE of schedule 1 was made
C31_Witness ==
    /\ ~debug
    /\ Len(queryLog) >= 1
    /\ queryLog[1].code = "error"
    /\ DeletePuts("tasks") = <<>>
    /\ deleteCalls["schedules"][schedules[1]] = 1

(* claims about the 'done' messages, checked under FairSpec *)

\* a 'done' message was put on some queue
SomeDonePut == \E k \in Kinds : DoneCount(k) > 0

\* C32: on each queue the 'done' messages come after all the ids: once a
\* 'done' was put on either queue no id is put on any queue any more (the
\* fetch thread has ended by then), so in the order of the puts and in the
\* queue itself no id is behind a 'done', and when a 'done' is at the head
\* of a queue, to be taken next, only 'done' messages are left in it.
C32_DoneBehindIds ==
    /\ [][SomeDonePut =>
             \A k \in Kinds : DeletePuts(k)' = DeletePuts(k)]_vars
    /\ [](SomeDonePut => fpc \in {"done", "raised"})
    /\ [](\A k \in Kinds :
             /\ \A a, b \in 1..Len(puts[k]) :
                   (a < b /\ puts[k][a] = Done) => puts[k][b] = Done
             /\ (queue[k] # <<>> /\ Head(queue[k]).id = Done) =>
                   \A x \in 1..Len(queue[k]) : queue[k][x].id = Done)
\* a 'done' is at the head of the 'schedules' queue, behind the ids put and
\* taken before it, while ids of the 'tasks' queue put before any 'done'
\* are still waiting
C32_Witness ==
    /\ queue["schedules"] # <<>> /\ Head(queue["schedules"]).id = Done
    /\ DeleteCount("schedules") = MaxParents
    /\ DoneCount("schedules") >= 1
    /\ queue["tasks"] # <<>> /\ Head(queue["tasks"]).id # Done
    /\ DoneLeft("tasks")

(* claims about the joins of the queues, checked under Spec *)

C34_FetchRaisedNoBlock ==
    /\ (fpc = "raised") ~> (mainPc = "returned")
    /\ [](fpc = "raised" =>
            /\ mainPc = "fetch_join" => ENABLED FetchJoin
            /\ DeletePuts("schedules") = SubSeq(schedules, 1, fIdx - 1)
            /\ \A n \in fIdx..Len(schedules) :
                  /\ schedules[n] \notin Range(puts["schedules"])
                  /\ \A t \in Range(puts["tasks"]) :
                        t # Done => ParentOf(t) # schedules[n]
            /\ mainPc = "returned" =>
                  \A k \in Kinds :
                     /\ queue[k] = <<>>
                     /\ \A sn \in 1..Len(puts[k]) : deqCount[k][sn] = 1
                     /\ ~debug => CallsMade(k) = DeleteCount(k)
                     /\ \A w \in Workers(k) : w.pc = "exited")
\* the query of the second schedule raised after the first schedule and a
\* task of it were put; both were deleted and the main thread has returned
C34_Witness ==
    /\ fpc = "raised" /\ fIdx = 2 /\ Len(schedules) >= 2
    /\ mainPc = "returned"
    /\ ~debug
    /\ DeletePuts("schedules") = <<schedules[1]>>
    /\ DeleteCount("tasks") >= 1
    /\ \A k \in Kinds : CallsMade(k) = DeleteCount(k)

(* claims about a failed stale-schedule query, checked under TimeoutSpec *)

\* C35: when an exception has left the stale-schedule query, all delete
\* threads of both queues were started, the fetch thread was not, no
\* message at all was put on a queue, no 'done' in particular, and every
\* delete thread is at its get with nothing taken, the get about to time
\* out; and every step from there on is a get that times out and leaves all
\* of this as it is: no delete thread ever ends.
C35_StaleQueryRaisedHangs ==
    /\ [](mainPc = "raised" =>
            /\ fpc = "idle"
            /\ \A k \in Kinds :
                  /\ puts[k] = <<>> /\ queue[k] = <<>>
                  /\ Started(k) = create_num_api_threads
                  /\ \A w \in Workers(k) :
                        /\ w.pc = "get" /\ w.done = 0
                        /\ ENABLED WorkerGet(k, w))
    /\ [][mainPc = "raised" =>
             /\ timeoutTick' # timeoutTick
             /\ UNCHANGED <<mainPc, fpc, queue, puts, thread_pool,
                            deleteCalls, unfinished>>]_vars
\* the stale-schedule query has raised and a get of a delete thread has
\* timed out, all threads still at their gets
C35_Witness ==
    /\ mainPc = "raised"
    /\ timeoutTick
    /\ \A k \in Kinds :
          /\ Started(k) = NumApiThreads
          /\ \A w \in Workers(k) : w.pc = "get"

(* claims about the client, checked under HttpSpec *)

\* the httpRequest call has returned to tryAPIRequest, which returns
Returned == hpc = "returned"

\* the attempts the claim expects of a call that has returned: with k 5xx
\* responses followed by another response, min(k+1, R); with 5xx responses
\* only, R (the server's k is at least the number received); one when
\* retry500 is unset
ExpectedAttempts ==
    IF hRetry500 = 0 THEN 1
    ELSE IF hOther THEN Min(h5xx + 1, hRetry500) ELSE hRetry500

NineThen2xx ==
    /\ Returned /\ hRequestType = "DELETE" /\ hLogger
    /\ hRetry500 = 10 /\ h5xx = 9 /\ hAttempts = 10
    /\ responseCode > 199 /\ responseCode < 300

\* C9 as stated: the call ends without any error logged
C9_AsStated == NineThen2xx => (requestError = FALSE /\ hErrors = 0)

\* C9: with retry500 = 10, a DELETE answered 5xx nine times and 2xx the tenth
\* time ends with the 2xx code and without a request error; httpRequest has
\* logged nine errors, one per failed attempt, and nothing on stderr.
C9_RetryThenSuccess ==
    NineThen2xx =>
        /\ requestError = FALSE
        /\ hErrors = 9
        /\ hStderr = 0

C9_Witness == NineThen2xx /\ hRuns = 1 /\ hTryErrors = 0 /\ hErrors = 9

\* the call has returned after 5xx responses only, with a retry bound
Exhausted ==
    /\ Returned /\ Supported(hRequestType) /\ hLogger
    /\ hRetry500 >= 1 /\ ~hOther /\ h5xx >= 1

\* C10 as stated: one error is logged for the call
C10_AsStated == Exhausted => (hErrors = 1 /\ hAttempts = hRetry500)

\* C10: a call answered 5xx on every attempt returns after exactly R
\* attempts with the request error set, having logged R + 1 errors: one per
\* failed attempt and one for the failed request.
C10_RetryExhausted ==
    Exhausted =>
        /\ hAttempts = hRetry500
        /\ h5xx = hRetry500
        /\ requestError = TRUE
        /\ Is5xx(responseCode)
        /\ hErrors = hRetry500 + 1

C10_Witness ==
    /\ Exhausted /\ hRequestType = "DELETE"
    /\ hRetry500 = 10 /\ hAttempts = 10 /\ hErrors = 11

\* C21: for a tryAPIRequest call with retryExceptions = E >= 1 and
\* retry500 = R >= 1 that does not page, httpRequest is run at most E times,
\* never again after a run that returned, the call ends with the exception
\* exactly when the E-th run has raised, it returns with the first run that
\* does not raise, and all runs together issue at most E x R HTTP requests.
C21_ExceptionRetryBound ==
    (hRetryExceptions >= 1 /\ hRetry500 >= 1 /\ ~Paging) =>
        /\ hRuns <= hRetryExceptions
        /\ hTryErrors <= hRuns /\ hRuns <= hTryErrors + 1
        /\ (hpc = "raised" <=> hTryErrors = hRetryExceptions)
        /\ (hpc = "returned" => hRuns = hTryErrors + 1)
        /\ hAttempts <= hRetry500
        /\ hTotal <= hRetryExceptions * hRetry500

\* five runs of three requests each, the last of each raising
C21_Witness ==
    /\ hRetryExceptions = 5 /\ hRetry500 = 3 /\ ~Paging
    /\ hpc = "raised"
    /\ hRuns = 5 /\ hTryErrors = 5
    /\ hTotal = 15

\* C22 as stated: an httpRequest call fetches a further page only when loop
\* is set; with loop unset (None, or the default False) a call that has
\* returned has fetched one page.
C22_AsStated ==
    /\ hPages > 1 => hLoop = "True"
    /\ (Returned /\ Supported(hRequestType) /\ hLoop # "True") => hPages = 1

(* claims about the argument handler, checked under ArgsSpec *)

\* the value the claim gives the argument: that of the command line when
\* given, else that of the config file when it defines the key, else the
\* default of the manifest
ExpectedArg ==
    IF argv # NoArg THEN commandLineArgs(argType, argv)
    ELSE IF configFile /\ configText # NoArg
         THEN ConfigValue(argType, configText)
         ELSE argDefault

\* C23 as stated: when handleArgs returns, the argument has the value of the
\* command line, else of the config file, else the default of the manifest
C23_AsStated == argPc = "returned" => argNameSpace = ExpectedArg

\* the call got one response, kept as its response code, and has returned
FirstResponse ==
    /\ Returned /\ Supported(hRequestType)
    /\ hPages = 1 /\ h5xx = 0 /\ responseCode # NoneVal

Is4xx(status) == status > 399 /\ status < 500
Is2xx(status) == status > 199 /\ status < 300

====
